---------------------------- MODULE Spec2Model ----------------------------
(***************************************************************************)
(* A model of Sphere.js (src/unnamed/part_001): the parametric UV-sphere   *)
(* mesh builder, its interleaver and its upload to the WebGL buffers.      *)
(*                                                                         *)
(* JavaScript numbers are modelled as fixed-point integers: the number x   *)
(* is the integer x * One, and every arithmetic operation rounds to the    *)
(* nearest representable value, as floating point does.  Angles are kept   *)
(* at the finer resolution Fine.  Arrays are sequences; the JavaScript     *)
(* index i is position i + 1 of the sequence.                              *)
(*                                                                         *)
(* Only({e(v) : v \in {d}}) is "let v be d in e(v)" with d evaluated once. *)
(***************************************************************************)
EXTENDS Integers, Sequences, FiniteSets, TLC

(***************************************************************************)
(* Bounds of the model.                                                    *)
(***************************************************************************)
MaxSectors == 4     \* largest sector count passed to the Sphere
MaxStacks  == 3     \* largest stack count passed to the Sphere

(***************************************************************************)
(* Numbers.                                                                *)
(***************************************************************************)
One  == 100         \* the number 1.0
Fine == 10000       \* the number 1.0 at the resolution of angles
PI   == 31416       \* Math.PI, at the resolution of angles

Only(S) == CHOOSE v \in S : TRUE

\* a / b rounded to the nearest integer, halves away from zero (b > 0)
RoundDiv(a, b) ==
    Only({IF v >= 0 THEN (2 * v + b) \div (2 * b)
                    ELSE -((2 * (-v) + b) \div (2 * b)) : v \in {a}})

\* the product and the quotient of two numbers (the divisor is positive)
Mul(a, b) == RoundDiv(a * b, One)
Div(a, b) == RoundDiv(a * One, b)

\* the integer n as a number
Num(n) == n * One

\* 0.000001, the length below which computeFaceNormal leaves the normal zero
Epsilon == One \div 1000000

\* sin x for 0 <= x <= PI/2, at the resolution of angles, by the Taylor
\* polynomial of sin up to x^9
SinPoly(x) ==
    LET x2 == (x * x) \div Fine
        t4 == Fine - x2 \div 72
        t3 == Fine - (x2 * t4) \div (42 * Fine)
        t2 == Fine - (x2 * t3) \div (20 * Fine)
        t1 == Fine - (x2 * t2) \div (6 * Fine)
    IN  (x * t1) \div Fine

\* Math.sin and Math.cos of an angle (at resolution Fine); the result is a number
MathSin(angle) ==
    Only({RoundDiv(IF 2 * a <= PI THEN SinPoly(a)
                   ELSE IF a <= PI THEN SinPoly(PI - a)
                   ELSE IF 2 * a <= 3 * PI THEN -SinPoly(a - PI)
                   ELSE -SinPoly(2 * PI - a),
                   Fine \div One) : a \in {angle % (2 * PI)}})

MathCos(angle) == MathSin(angle + PI \div 2)

\* Math.sqrt of a positive integer, rounded down, by Newton's iteration from g
RECURSIVE SqrtFrom(_, _)
SqrtFrom(n, g) ==
    Only({IF h >= g THEN g ELSE SqrtFrom(n, h) : h \in {(g + n \div g) \div 2}})

MathSqrt(n) == Only({IF v <= 0 THEN 0 ELSE SqrtFrom(v, v) : v \in {n}})

(***************************************************************************)
(* Arrays.  A typed array has a fixed length: a write outside it is        *)
(* ignored, and assigning its length does nothing (Sphere.js is not in     *)
(* strict mode).  A Uint16Array keeps the value modulo 2^16.               *)
(***************************************************************************)
\* a new typed array of n elements, all zero
RECURSIVE Zeros(_)
Zeros(n) ==
    IF n <= 0 THEN <<>>
    ELSE Only({IF n % 2 = 0 THEN half \o half ELSE Append(half \o half, 0) :
               half \in {Zeros(n \div 2)}})

At(a, index) == a[index + 1]

\* array[index] = v
Store(array, index, v) ==
    Only({IF index >= 0 /\ index < Len(a) THEN [a EXCEPT ![index + 1] = v] ELSE a :
          a \in {array}})

\* two and three consecutive writes
Store2(array, index, x, y) ==
    Only({IF index >= 0 /\ index + 1 < Len(a)
          THEN [a EXCEPT ![index + 1] = x, ![index + 2] = y]
          ELSE Store(Store(a, index, x), index + 1, y) : a \in {array}})

Store3(array, index, x, y, z) ==
    Only({IF index >= 0 /\ index + 2 < Len(a)
          THEN [a EXCEPT ![index + 1] = x, ![index + 2] = y, ![index + 3] = z]
          ELSE Store(Store(Store(a, index, x), index + 1, y), index + 2, z) :
          a \in {array}})

ToUint16(v) == v % 65536

TypedNames == {"vertices", "normals", "texCoords", "indices"}

(***************************************************************************)
(* The WebGL context: the buffer objects created so far (a handle is the   *)
(* position of the buffer in gl.buffers, 0 is null) and the two bindings.  *)
(***************************************************************************)
NewContext == [buffers |-> <<>>, ARRAY_BUFFER |-> 0, ELEMENT_ARRAY_BUFFER |-> 0]

createBuffer(g) == [g EXCEPT !.buffers = Append(@, <<>>)]

bindBuffer(g, target, handle) == [g EXCEPT ![target] = handle]

\* gl.bufferData copies the data into the buffer bound to the target
bufferData(g, target, data) ==
    Only({IF c[target] = 0 THEN c
          ELSE [c EXCEPT !.buffers = [@ EXCEPT ![c[target]] = data]] : c \in {g}})

(***************************************************************************)
(* Sphere.prototype.  The operators on the Sphere alone take and return    *)
(* the object s; a build takes and returns the build state b: the object   *)
(* b.sphere and the local variables of the build; set, the setters and the *)
(* constructor take and return the world w: the object w.sphere, the       *)
(* WebGL context w.gl, the final values of the counters of the last build  *)
(* w.built, and w.threw, TRUE once a TypeError has left the call.          *)
(***************************************************************************)
addVertex(s, index, x, y, z) == [s EXCEPT !.vertices = Store3(@, index, x, y, z)]

addNormal(s, index, x, y, z) == [s EXCEPT !.normals = Store3(@, index, x, y, z)]

addTexCoord(s, index, u, v) == [s EXCEPT !.texCoords = Store2(@, index, u, v)]

addIndices(s, index, i1, i2, i3) ==
    [s EXCEPT !.indices = Store3(@, index, ToUint16(i1), ToUint16(i2), ToUint16(i3))]

getIndexCount(s) == Len(s.indices)
getTriangleCount(s) == getIndexCount(s) \div 3
getVertexCount(s) == Len(s.vertices) \div 3
getNormalCount(s) == Len(s.normals) \div 3
getTexCoordCount(s) == Len(s.texCoords) \div 2

\* array.length = 0: empties a plain array, leaves a typed array as it is
ClearLength(s, name) == IF name \in s.typed THEN s[name] ELSE <<>>

clearArrays(s) ==
    [s EXCEPT !.vertices = ClearLength(s, "vertices"),
              !.normals = ClearLength(s, "normals"),
              !.texCoords = ClearLength(s, "texCoords"),
              !.indices = ClearLength(s, "indices"),
              !.interleavedVertices = ClearLength(s, "interleavedVertices")]

\* resizeArraysSmooth without the seam column
resizeArraysSmooth_seam(s) ==
    Only({[c EXCEPT !.vertices = Zeros(3 * count),
                    !.normals = Zeros(3 * count),
                    !.texCoords = Zeros(2 * count),
                    !.indices = Zeros(6 * c.sectorCount * (c.stackCount - 1)),
                    !.typed = @ \cup TypedNames] :
          c \in {clearArrays(s)}, count \in {s.sectorCount * (s.stackCount + 1)}})

resizeArraysSmooth(s) ==
    Only({[c EXCEPT !.vertices = Zeros(3 * count),
                    !.normals = Zeros(3 * count),
                    !.texCoords = Zeros(2 * count),
                    !.indices = Zeros(6 * c.sectorCount * (c.stackCount - 1)),
                    !.typed = @ \cup TypedNames] :
          c \in {clearArrays(s)}, count \in {(s.sectorCount + 1) * (s.stackCount + 1)}})

\* resizeArraysFlat keeping the front of the old normals when it is long enough
resizeArraysFlat_reuse(s) ==
    Only({[c EXCEPT !.vertices = Zeros(3 * count),
                    !.normals = IF Len(s.normals) >= 3 * count
                                THEN SubSeq(s.normals, 1, 3 * count)
                                ELSE Zeros(3 * count),
                    !.texCoords = Zeros(2 * count),
                    !.indices = Zeros(6 * c.sectorCount * (c.stackCount - 1)),
                    !.typed = @ \cup TypedNames] :
          c \in {clearArrays(s)},
          count \in {6 * s.sectorCount + 4 * s.sectorCount * (s.stackCount - 2)}})

\* resizeArraysFlat with three texture coordinates a vertex
resizeArraysFlat_tex(s) ==
    Only({[c EXCEPT !.vertices = Zeros(3 * count),
                    !.normals = Zeros(3 * count),
                    !.texCoords = Zeros(3 * count),
                    !.indices = Zeros(6 * c.sectorCount * (c.stackCount - 1)),
                    !.typed = @ \cup TypedNames] :
          c \in {clearArrays(s)},
          count \in {6 * s.sectorCount + 4 * s.sectorCount * (s.stackCount - 2)}})

\* resizeArraysFlat with two triangles a sector in every stack
resizeArraysFlat_quads(s) ==
    Only({[c EXCEPT !.vertices = Zeros(3 * count),
                    !.normals = Zeros(3 * count),
                    !.texCoords = Zeros(2 * count),
                    !.indices = Zeros(6 * c.sectorCount * c.stackCount),
                    !.typed = @ \cup TypedNames] :
          c \in {clearArrays(s)},
          count \in {6 * s.sectorCount + 4 * s.sectorCount * (s.stackCount - 2)}})

resizeArraysFlat(s) ==
    Only({[c EXCEPT !.vertices = Zeros(3 * count),
                    !.normals = Zeros(3 * count),
                    !.texCoords = Zeros(2 * count),
                    !.indices = Zeros(6 * c.sectorCount * (c.stackCount - 1)),
                    !.typed = @ \cup TypedNames] :
          c \in {clearArrays(s)},
          count \in {6 * s.sectorCount + 4 * s.sectorCount * (s.stackCount - 2)}})

\* computeFaceNormal with the threshold 1.0 in place of 0.000001
computeFaceNormal_coarse(x1, y1, z1, x2, y2, z2, x3, y3, z3) ==
    LET ex1 == x2 - x1
        ey1 == y2 - y1
        ez1 == z2 - z1
        ex2 == x3 - x1
        ey2 == y3 - y1
        ez2 == z3 - z1
        nx == Mul(ey1, ez2) - Mul(ez1, ey2)
        ny == Mul(ez1, ex2) - Mul(ex1, ez2)
        nz == Mul(ex1, ey2) - Mul(ey1, ex2)
    IN  Only({Only({IF length > One
                    THEN <<Div(n[1], length), Div(n[2], length), Div(n[3], length)>>
                    ELSE <<0, 0, 0>> :
                    length \in {MathSqrt(n[1] * n[1] + n[2] * n[2] + n[3] * n[3])}}) :
              n \in {<<nx, ny, nz>>}})

\* Sphere.computeFaceNormal: the unit normal of the triangle p1 p2 p3
computeFaceNormal(x1, y1, z1, x2, y2, z2, x3, y3, z3) ==
    LET ex1 == x2 - x1
        ey1 == y2 - y1
        ez1 == z2 - z1
        ex2 == x3 - x1
        ey2 == y3 - y1
        ez2 == z3 - z1
        nx == Mul(ey1, ez2) - Mul(ez1, ey2)
        ny == Mul(ez1, ex2) - Mul(ex1, ez2)
        nz == Mul(ex1, ey2) - Mul(ey1, ex2)
    IN  Only({Only({IF length > Epsilon
                    THEN <<Div(n[1], length), Div(n[2], length), Div(n[3], length)>>
                    ELSE <<0, 0, 0>> :
                    length \in {MathSqrt(n[1] * n[1] + n[2] * n[2] + n[3] * n[3])}}) :
              n \in {<<nx, ny, nz>>}})

\* the build state at the start of a build of the Sphere s
Begin(s) ==
    [sphere |-> s, i |-> 0, j |-> 0, k |-> 0, ii |-> 0, jj |-> 0, kk |-> 0, index |-> 0,
     xy |-> 0, z |-> 0, tmpVertices |-> <<>>]

\* InterleaveStep with the texture coordinates of the next vertex
InterleaveStep_tex(b) ==
    LET s == b.sphere
        i == b.i
        j == b.j
        a == Store3(s.interleavedVertices, b.k,
                    At(s.vertices, i), At(s.vertices, i + 1), At(s.vertices, i + 2))
        n == Store3(a, b.k + 3,
                    At(s.normals, i), At(s.normals, i + 1), At(s.normals, i + 2))
        t == Store2(n, b.k + 6, At(s.texCoords, j + 1), At(s.texCoords, j))
    IN  [b EXCEPT !.sphere.interleavedVertices = t,
                  !.i = @ + 3, !.j = @ + 2, !.k = @ + 8]

\* one turn of the loop of buildInterleavedVertices
InterleaveStep(b) ==
    LET s == b.sphere
        i == b.i
        j == b.j
        a == Store3(s.interleavedVertices, b.k,
                    At(s.vertices, i), At(s.vertices, i + 1), At(s.vertices, i + 2))
        n == Store3(a, b.k + 3,
                    At(s.normals, i), At(s.normals, i + 1), At(s.normals, i + 2))
        t == Store2(n, b.k + 6, At(s.texCoords, j), At(s.texCoords, j + 1))
    IN  [b EXCEPT !.sphere.interleavedVertices = t,
                  !.i = @ + 3, !.j = @ + 2, !.k = @ + 8]

\* at most n turns of the loop, split in halves to keep the evaluation shallow
RECURSIVE InterleaveTurns(_, _)
InterleaveTurns(from, n) ==
    Only({IF n = 0 \/ ~(b.i < Len(b.sphere.vertices)) THEN b
          ELSE IF n = 1 THEN InterleaveStep(b)
          ELSE InterleaveTurns(InterleaveTurns(b, n \div 2), n - n \div 2) :
          b \in {from}})

\* the loop runs while i < vertices.length, which is fewer than vertices.length turns
InterleaveLoop(from) == InterleaveTurns(from, Len(from.sphere.vertices))

buildInterleavedVertices(s) ==
    Only({InterleaveLoop(Begin(
              [c EXCEPT !.interleavedVertices = Zeros(vertexCount * 8),
                        !.typed = @ \cup {"interleavedVertices"}])).sphere :
          vertexCount \in {getVertexCount(s)},
          c \in {[s EXCEPT !.interleavedVertices = ClearLength(s, "interleavedVertices")]}})

\* buildVbos with the index buffer unbound before its upload
buildVbos_unbound(world) ==
    Only({IF ~w.sphere.gl THEN [w EXCEPT !.threw = TRUE]
          ELSE LET g1 == bindBuffer(w.gl, "ARRAY_BUFFER", w.sphere.vboVertex)
                   g2 == bufferData(g1, "ARRAY_BUFFER", w.sphere.interleavedVertices)
                   g3 == bindBuffer(g2, "ARRAY_BUFFER", 0)
                   g4 == bindBuffer(g3, "ELEMENT_ARRAY_BUFFER", 0)
                   g5 == bufferData(g4, "ELEMENT_ARRAY_BUFFER", w.sphere.indices)
               IN  [w EXCEPT !.gl = g5] : w \in {world}})

\* buildVbos: gl.bindBuffer on an undefined gl is a TypeError
buildVbos(world) ==
    Only({IF ~w.sphere.gl THEN [w EXCEPT !.threw = TRUE]
          ELSE LET g1 == bindBuffer(w.gl, "ARRAY_BUFFER", w.sphere.vboVertex)
                   g2 == bufferData(g1, "ARRAY_BUFFER", w.sphere.interleavedVertices)
                   g3 == bindBuffer(g2, "ARRAY_BUFFER", 0)
                   g4 == bindBuffer(g3, "ELEMENT_ARRAY_BUFFER", w.sphere.vboIndex)
                   g5 == bufferData(g4, "ELEMENT_ARRAY_BUFFER", w.sphere.indices)
                   g6 == bindBuffer(g5, "ELEMENT_ARRAY_BUFFER", 0)
               IN  [w EXCEPT !.gl = g6] : w \in {world}})

\* the counters a build leaves behind
Counters(b) == [ii |-> b.ii, jj |-> b.jj, kk |-> b.kk, index |-> b.index]

\* the end of both builds: interleave, upload
Finish(w, built) ==
    Only({buildVbos([w EXCEPT !.sphere = buildInterleavedVertices(b.sphere),
                              !.built = Counters(b)]) : b \in {built}})

\* the first statements of a turn of the stack loop of both builds: xy and z
StackRow(b) ==
    LET s == b.sphere
        stackStep == RoundDiv(PI, s.stackCount)
        stackAngle == PI \div 2 - b.i * stackStep
    IN  [b EXCEPT !.xy = Mul(s.radius, MathCos(stackAngle)),
                  !.z = Mul(s.radius, MathSin(stackAngle)),
                  !.j = 0]

\* SmoothSectorStep with the position stored as the normal, not divided by the radius
SmoothSectorStep_raw(b) ==
    LET s == b.sphere
        lengthInv == One
        sectorStep == RoundDiv(2 * PI, s.sectorCount)
        sectorAngle == b.j * sectorStep
    IN  Only({[b EXCEPT !.sphere =
                  addTexCoord(
                      addNormal(addVertex(s, b.ii, p.x, p.y, b.z),
                                b.ii, Mul(p.x, lengthInv), Mul(p.y, lengthInv),
                                Mul(b.z, lengthInv)),
                      b.jj, Div(Num(b.j), Num(s.sectorCount)),
                      Div(Num(b.i), Num(s.stackCount))),
                  !.ii = @ + 3, !.jj = @ + 2, !.j = @ + 1] :
              p \in {[x |-> Mul(b.xy, MathCos(sectorAngle)),
                      y |-> Mul(b.xy, MathSin(sectorAngle))]}})

\* SmoothSectorStep with the circle divided over the sectorCount + 1 columns
SmoothSectorStep_open(b) ==
    LET s == b.sphere
        lengthInv == Div(One, s.radius)
        sectorStep == RoundDiv(2 * PI, s.sectorCount + 1)
        sectorAngle == b.j * sectorStep
    IN  Only({[b EXCEPT !.sphere =
                  addTexCoord(
                      addNormal(addVertex(s, b.ii, p.x, p.y, b.z),
                                b.ii, Mul(p.x, lengthInv), Mul(p.y, lengthInv),
                                Mul(b.z, lengthInv)),
                      b.jj, Div(Num(b.j), Num(s.sectorCount)),
                      Div(Num(b.i), Num(s.stackCount))),
                  !.ii = @ + 3, !.jj = @ + 2, !.j = @ + 1] :
              p \in {[x |-> Mul(b.xy, MathCos(sectorAngle)),
                      y |-> Mul(b.xy, MathSin(sectorAngle))]}})

\* one turn of the sector loop of the vertex loop of buildVerticesSmooth
SmoothSectorStep(b) ==
    LET s == b.sphere
        lengthInv == Div(One, s.radius)
        sectorStep == RoundDiv(2 * PI, s.sectorCount)
        sectorAngle == b.j * sectorStep
    IN  Only({[b EXCEPT !.sphere =
                  addTexCoord(
                      addNormal(addVertex(s, b.ii, p.x, p.y, b.z),
                                b.ii, Mul(p.x, lengthInv), Mul(p.y, lengthInv),
                                Mul(b.z, lengthInv)),
                      b.jj, Div(Num(b.j), Num(s.sectorCount)),
                      Div(Num(b.i), Num(s.stackCount))),
                  !.ii = @ + 3, !.jj = @ + 2, !.j = @ + 1] :
              p \in {[x |-> Mul(b.xy, MathCos(sectorAngle)),
                      y |-> Mul(b.xy, MathSin(sectorAngle))]}})

RECURSIVE SmoothSectorLoop(_)
SmoothSectorLoop(from) ==
    Only({IF ~(b.j <= b.sphere.sectorCount) THEN b
          ELSE SmoothSectorLoop(SmoothSectorStep(b)) : b \in {from}})

\* the vertex loop of buildVerticesSmooth
RECURSIVE SmoothVertexLoop(_)
SmoothVertexLoop(from) ==
    Only({IF ~(b.i <= b.sphere.stackCount) THEN b
          ELSE SmoothVertexLoop([SmoothSectorLoop(StackRow(b)) EXCEPT !.i = @ + 1]) :
          b \in {from}})

\* SmoothIndexStep with k2 taken two stacks below k1
SmoothIndexStep_row(b) ==
    LET s == b.sphere
        k1 == b.i * (s.sectorCount + 1) + b.j
        k2 == k1 + 2 * (s.sectorCount + 1)
        upper == b.i /= 0
        lower == b.i /= s.stackCount - 1
        s1 == IF upper THEN addIndices(s, b.kk, k1, k2, k1 + 1) ELSE s
        kk1 == IF upper THEN b.kk + 3 ELSE b.kk
        s2 == IF lower THEN addIndices(s1, kk1, k1 + 1, k2, k2 + 1) ELSE s1
        kk2 == IF lower THEN kk1 + 3 ELSE kk1
    IN  [b EXCEPT !.sphere = s2, !.kk = kk2, !.j = @ + 1]

\* SmoothIndexStep with the upper triangle emitted in the first stack too
SmoothIndexStep_pole(b) ==
    LET s == b.sphere
        k1 == b.i * (s.sectorCount + 1) + b.j
        k2 == k1 + s.sectorCount + 1
        lower == b.i /= s.stackCount - 1
        s1 == addIndices(s, b.kk, k1, k2, k1 + 1)
        kk1 == b.kk + 3
        s2 == IF lower THEN addIndices(s1, kk1, k1 + 1, k2, k2 + 1) ELSE s1
        kk2 == IF lower THEN kk1 + 3 ELSE kk1
    IN  [b EXCEPT !.sphere = s2, !.kk = kk2, !.j = @ + 1]

\* SmoothIndexStep with the corners of the upper triangle in the other order
SmoothIndexStep_winding(b) ==
    LET s == b.sphere
        k1 == b.i * (s.sectorCount + 1) + b.j
        k2 == k1 + s.sectorCount + 1
        upper == b.i /= 0
        lower == b.i /= s.stackCount - 1
        s1 == IF upper THEN addIndices(s, b.kk, k1, k1 + 1, k2) ELSE s
        kk1 == IF upper THEN b.kk + 3 ELSE b.kk
        s2 == IF lower THEN addIndices(s1, kk1, k1 + 1, k2, k2 + 1) ELSE s1
        kk2 == IF lower THEN kk1 + 3 ELSE kk1
    IN  [b EXCEPT !.sphere = s2, !.kk = kk2, !.j = @ + 1]

\* one turn of the sector loop of the index loop of buildVerticesSmooth
SmoothIndexStep(b) ==
    LET s == b.sphere
        k1 == b.i * (s.sectorCount + 1) + b.j
        k2 == k1 + s.sectorCount + 1
        upper == b.i /= 0
        lower == b.i /= s.stackCount - 1
        s1 == IF upper THEN addIndices(s, b.kk, k1, k2, k1 + 1) ELSE s
        kk1 == IF upper THEN b.kk + 3 ELSE b.kk
        s2 == IF lower THEN addIndices(s1, kk1, k1 + 1, k2, k2 + 1) ELSE s1
        kk2 == IF lower THEN kk1 + 3 ELSE kk1
    IN  [b EXCEPT !.sphere = s2, !.kk = kk2, !.j = @ + 1]

RECURSIVE SmoothIndexSectorLoop(_)
SmoothIndexSectorLoop(from) ==
    Only({IF ~(b.j < b.sphere.sectorCount) THEN b
          ELSE SmoothIndexSectorLoop(SmoothIndexStep(b)) : b \in {from}})

\* the index loop of buildVerticesSmooth
RECURSIVE SmoothIndexLoop(_)
SmoothIndexLoop(from) ==
    Only({IF ~(b.i < b.sphere.stackCount) THEN b
          ELSE SmoothIndexLoop([SmoothIndexSectorLoop([b EXCEPT !.j = 0])
                                    EXCEPT !.i = @ + 1]) : b \in {from}})

buildVerticesSmooth(w) ==
    Finish(w, SmoothIndexLoop([SmoothVertexLoop(Begin(resizeArraysSmooth(w.sphere)))
                                   EXCEPT !.i = 0]))

\* one turn of the sector loop of the first loop of buildVerticesFlat
FlatSectorStep(b) ==
    LET s == b.sphere
        sectorStep == RoundDiv(2 * PI, s.sectorCount)
        sectorAngle == b.j * sectorStep
        vertex == [x |-> Mul(b.xy, MathCos(sectorAngle)),
                   y |-> Mul(b.xy, MathSin(sectorAngle)),
                   z |-> b.z,
                   s |-> Div(Num(b.j), Num(s.sectorCount)),
                   t |-> Div(Num(b.i), Num(s.stackCount))]
    IN  [b EXCEPT !.tmpVertices = Append(@, vertex), !.j = @ + 1]

RECURSIVE FlatSectorLoop(_)
FlatSectorLoop(from) ==
    Only({IF ~(b.j <= b.sphere.sectorCount) THEN b
          ELSE FlatSectorLoop(FlatSectorStep(b)) : b \in {from}})

\* the first loop of buildVerticesFlat: tmpVertices
RECURSIVE FlatVertexLoop(_)
FlatVertexLoop(from) ==
    Only({IF ~(b.i <= b.sphere.stackCount) THEN b
          ELSE FlatVertexLoop([FlatSectorLoop(StackRow(b)) EXCEPT !.i = @ + 1]) :
          b \in {from}})

\* one triangle of a cell of the first or of the last stack, corners p1, p2, p3
FlatTriangle(b, p1, p2, p3) ==
    LET s1 == addVertex(b.sphere, b.ii, p1.x, p1.y, p1.z)
        s2 == addVertex(s1, b.ii + 3, p2.x, p2.y, p2.z)
        s3 == addVertex(s2, b.ii + 6, p3.x, p3.y, p3.z)
        s4 == addTexCoord(s3, b.jj, p1.s, p1.t)
        s5 == addTexCoord(s4, b.jj + 2, p2.s, p2.t)
        s6 == addTexCoord(s5, b.jj + 4, p3.s, p3.t)
    IN  Only({[b EXCEPT !.sphere =
                  addIndices(
                      addNormal(addNormal(addNormal(s6, b.ii, n[1], n[2], n[3]),
                                          b.ii + 3, n[1], n[2], n[3]),
                                b.ii + 6, n[1], n[2], n[3]),
                      b.kk, b.index, b.index + 1, b.index + 2),
                  !.ii = @ + 9, !.jj = @ + 6, !.kk = @ + 3, !.index = @ + 3] :
              n \in {computeFaceNormal(p1.x, p1.y, p1.z, p2.x, p2.y, p2.z,
                                       p3.x, p3.y, p3.z)}})

\* FlatQuad emitting the first of its two triangles only
FlatQuad_three(b, v1, v2, v3, v4) == FlatTriangle(b, v1, v2, v3)

\* the two triangles of a cell of any other stack, corners v1, v2, v3, v4
FlatQuad(b, v1, v2, v3, v4) ==
    LET s1 == addVertex(b.sphere, b.ii, v1.x, v1.y, v1.z)
        s2 == addVertex(s1, b.ii + 3, v2.x, v2.y, v2.z)
        s3 == addVertex(s2, b.ii + 6, v3.x, v3.y, v3.z)
        s4 == addVertex(s3, b.ii + 9, v4.x, v4.y, v4.z)
        s5 == addTexCoord(s4, b.jj, v1.s, v1.t)
        s6 == addTexCoord(s5, b.jj + 2, v2.s, v2.t)
        s7 == addTexCoord(s6, b.jj + 4, v3.s, v3.t)
        s8 == addTexCoord(s7, b.jj + 6, v4.s, v4.t)
    IN  Only({[b EXCEPT !.sphere =
                  addIndices(
                      addIndices(
                          addNormal(addNormal(addNormal(s8, b.ii, n[1], n[2], n[3]),
                                              b.ii + 3, n[1], n[2], n[3]),
                                    b.ii + 6, n[1], n[2], n[3]),
                          b.kk, b.index, b.index + 1, b.index + 2),
                      b.kk + 3, b.index + 2, b.index + 1, b.index + 3),
                  !.ii = @ + 12, !.jj = @ + 8, !.kk = @ + 6, !.index = @ + 4] :
              n \in {computeFaceNormal(v1.x, v1.y, v1.z, v2.x, v2.y, v2.z,
                                       v3.x, v3.y, v3.z)}})

\* FlatCellStep with the corners v1, v2, v3 in the first stack too
FlatCellStep_pole(b) ==
    LET s == b.sphere
        vi1 == b.i * (s.sectorCount + 1) + b.j
        vi2 == (b.i + 1) * (s.sectorCount + 1) + b.j
        v1 == At(b.tmpVertices, vi1)
        v2 == At(b.tmpVertices, vi2)
        v3 == At(b.tmpVertices, vi1 + 1)
        v4 == At(b.tmpVertices, vi2 + 1)
        cell == IF b.i = 0 THEN FlatTriangle(b, v1, v2, v3)
                ELSE IF b.i = s.stackCount - 1 THEN FlatTriangle(b, v1, v2, v3)
                ELSE FlatQuad(b, v1, v2, v3, v4)
    IN  [cell EXCEPT !.j = @ + 1]

\* one turn of the sector loop of the cell loop of buildVerticesFlat
FlatCellStep(b) ==
    LET s == b.sphere
        vi1 == b.i * (s.sectorCount + 1) + b.j
        vi2 == (b.i + 1) * (s.sectorCount + 1) + b.j
        v1 == At(b.tmpVertices, vi1)
        v2 == At(b.tmpVertices, vi2)
        v3 == At(b.tmpVertices, vi1 + 1)
        v4 == At(b.tmpVertices, vi2 + 1)
        cell == IF b.i = 0 THEN FlatTriangle(b, v1, v2, v4)
                ELSE IF b.i = s.stackCount - 1 THEN FlatTriangle(b, v1, v2, v3)
                ELSE FlatQuad(b, v1, v2, v3, v4)
    IN  [cell EXCEPT !.j = @ + 1]

RECURSIVE FlatCellSectorLoop(_)
FlatCellSectorLoop(from) ==
    Only({IF ~(b.j < b.sphere.sectorCount) THEN b
          ELSE FlatCellSectorLoop(FlatCellStep(b)) : b \in {from}})

\* the cell loop of buildVerticesFlat
RECURSIVE FlatCellLoop(_)
FlatCellLoop(from) ==
    Only({IF ~(b.i < b.sphere.stackCount) THEN b
          ELSE FlatCellLoop([FlatCellSectorLoop([b EXCEPT !.j = 0]) EXCEPT !.i = @ + 1]) :
          b \in {from}})

buildVerticesFlat(w) ==
    Only({Finish(w, FlatCellLoop([tmp EXCEPT !.sphere = resizeArraysFlat(@), !.i = 0])) :
          tmp \in {FlatVertexLoop(Begin(w.sphere))}})

\* set without the two floors
set_unclamped(w, r, se, st, sm) ==
    LET s1 == [w.sphere EXCEPT !.radius = r, !.sectorCount = se, !.stackCount = st,
                               !.smooth = sm]
        w1 == [w EXCEPT !.sphere = s1]
    IN  IF sm THEN buildVerticesSmooth(w1) ELSE buildVerticesFlat(w1)

set(w, r, se, st, sm) ==
    LET s1 == [w.sphere EXCEPT !.radius = r,
                               !.sectorCount = IF se < 3 THEN 3 ELSE se,
                               !.stackCount = IF st < 2 THEN 2 ELSE st,
                               !.smooth = sm]
        w1 == [w EXCEPT !.sphere = s1]
    IN  IF sm THEN buildVerticesSmooth(w1) ELSE buildVerticesFlat(w1)

setRadius(w, r) ==
    IF w.sphere.radius /= r
    THEN set(w, r, w.sphere.sectorCount, w.sphere.stackCount, w.sphere.smooth)
    ELSE w

setSectorCount(w, s) ==
    IF w.sphere.sectorCount /= s
    THEN set(w, w.sphere.radius, s, w.sphere.stackCount, w.sphere.smooth)
    ELSE w

setStackCount(w, s) ==
    IF w.sphere.stackCount /= s
    THEN set(w, w.sphere.radius, w.sphere.sectorCount, s, w.sphere.smooth)
    ELSE w

setSmooth(w, s) ==
    IF w.sphere.smooth /= s
    THEN LET w1 == [w EXCEPT !.sphere.smooth = s]
         IN  IF s THEN buildVerticesSmooth(w1) ELSE buildVerticesFlat(w1)
    ELSE w

\* new Sphere(gl, radius, sectors, stacks, smooth) in the context g; hasGl is
\* FALSE when the caller passes no context.  The warning of line 26 goes to a
\* function log that is defined outside these sources; it is taken to return.
Sphere(g, hasGl, radius, sectors, stacks, smooth) ==
    LET g1 == IF hasGl THEN createBuffer(g) ELSE g
        g2 == IF hasGl THEN createBuffer(g1) ELSE g
        this == [gl |-> hasGl, radius |-> One, sectorCount |-> 36, stackCount |-> 18,
                 smooth |-> TRUE, vertices |-> <<>>, normals |-> <<>>,
                 texCoords |-> <<>>, indices |-> <<>>, interleavedVertices |-> <<>>,
                 stride |-> 32,
                 vboVertex |-> IF hasGl THEN Len(g1.buffers) ELSE 0,
                 vboIndex |-> IF hasGl THEN Len(g2.buffers) ELSE 0,
                 typed |-> {}]
    IN  set([sphere |-> this, gl |-> g2, threw |-> FALSE,
             built |-> [ii |-> 0, jj |-> 0, kk |-> 0, index |-> 0]],
            radius, sectors, stacks, smooth)

(***************************************************************************)
(* The state machine: a page constructs one Sphere and then calls set and  *)
(* the setters in any order, with any arguments.  call is the last call.   *)
(***************************************************************************)
VARIABLES sphere, gl, built, threw, call, face, page, degree, motion,
          cell, controls, slide

vars == <<sphere, gl, built, threw, call, face, page, degree, motion,
          cell, controls, slide>>

\* the variables of the Sphere, and those of the other scripts
sphereVars == <<sphere, gl, built, threw, call>>
moreVars == <<cell, controls, slide>>
otherVars == <<face, page, degree, motion, moreVars>>

\* the value of a variable whose script a specification does not run
NotRun == [run |-> FALSE]

Radii == {One \div 2, One, 2 * One}
SectorArgs == 2..MaxSectors
StackArgs == 1..MaxStacks

World == [sphere |-> sphere, gl |-> gl, built |-> built, threw |-> threw]

\* the call returned (or threw) leaving the world result
Becomes(result) ==
    \E w \in {result} :
        /\ sphere' = w.sphere
        /\ gl' = w.gl
        /\ built' = w.built
        /\ threw' = w.threw
        /\ UNCHANGED otherVars

Init ==
    /\ \E hasGl \in BOOLEAN, r \in Radii, se \in SectorArgs, st \in StackArgs,
          sm \in BOOLEAN :
           \E w \in {Sphere(NewContext, hasGl, r, se, st, sm)} :
               /\ sphere = w.sphere
               /\ gl = w.gl
               /\ built = w.built
               /\ threw = w.threw
               /\ call = [op |-> "new", se |-> se, st |-> st]
    /\ face = NotRun
    /\ page = NotRun
    /\ degree = NotRun
    /\ motion = NotRun
    /\ cell = NotRun /\ controls = NotRun /\ slide = NotRun

CallSet ==
    /\ ~threw
    /\ \E r \in Radii, se \in SectorArgs, st \in StackArgs, sm \in BOOLEAN :
        /\ Becomes(set(World, r, se, st, sm))
        /\ call' = [op |-> "set", se |-> se, st |-> st]

CallSetRadius ==
    /\ ~threw
    /\ \E r \in Radii :
        /\ Becomes(setRadius(World, r))
        /\ call' = [op |-> "setRadius", se |-> sphere.sectorCount,
                    st |-> sphere.stackCount]

CallSetSectorCount ==
    /\ ~threw
    /\ \E s \in SectorArgs :
        /\ Becomes(setSectorCount(World, s))
        /\ call' = [op |-> "setSectorCount", se |-> s, st |-> sphere.stackCount]

CallSetStackCount ==
    /\ ~threw
    /\ \E s \in StackArgs :
        /\ Becomes(setStackCount(World, s))
        /\ call' = [op |-> "setStackCount", se |-> sphere.sectorCount, st |-> s]

CallSetSmooth ==
    /\ ~threw
    /\ \E s \in BOOLEAN :
        /\ Becomes(setSmooth(World, s))
        /\ call' = [op |-> "setSmooth", se |-> sphere.sectorCount,
                    st |-> sphere.stackCount]

Next ==
    \/ CallSet
    \/ CallSetRadius
    \/ CallSetSectorCount
    \/ CallSetStackCount
    \/ CallSetSmooth

Spec == Init /\ [][Next]_vars

(***************************************************************************)
(* The mesh, read back from the arrays.                                    *)
(***************************************************************************)
VertexAt(s, v) == <<At(s.vertices, 3 * v), At(s.vertices, 3 * v + 1), At(s.vertices, 3 * v + 2)>>
NormalAt(s, v) == <<At(s.normals, 3 * v), At(s.normals, 3 * v + 1), At(s.normals, 3 * v + 2)>>
TexCoordAt(s, v) == <<At(s.texCoords, 2 * v), At(s.texCoords, 2 * v + 1)>>

\* the triangles of the index array and the three corners of triangle t
Triangles(s) == 0..(getTriangleCount(s) - 1)
Corner(s, t, c) == At(s.indices, 3 * t + c)

\* the face normal of triangle t, from the positions of its corners
FaceNormalOf(s, t) ==
    LET p1 == VertexAt(s, Corner(s, t, 0))
        p2 == VertexAt(s, Corner(s, t, 1))
        p3 == VertexAt(s, Corner(s, t, 2))
    IN  computeFaceNormal(p1[1], p1[2], p1[3], p2[1], p2[2], p2[3], p3[1], p3[2], p3[3])

\* the triangles with a corner at height z
TrianglesAt(s, z) ==
    {t \in Triangles(s) : \E c \in 0..2 : VertexAt(s, Corner(s, t, c))[3] = z}

Returned == ~threw

(***************************************************************************)
(* C1: after the constructor and after any sequence of set, setRadius,     *)
(* setSectorCount, setStackCount and setSmooth, sectorCount >= 3 and       *)
(* stackCount >= 2; a request below the floor is stored as the floor and   *)
(* raises no error.                                                        *)
(***************************************************************************)
C1_FloorsEnforced ==
    /\ sphere.sectorCount >= 3
    /\ sphere.stackCount >= 2
    /\ call.op \in {"new", "set", "setSectorCount"} /\ call.se < 3
           => sphere.sectorCount = 3
    /\ call.op \in {"new", "set", "setStackCount"} /\ call.st < 2
           => sphere.stackCount = 2
    /\ sphere.gl => Returned

C1_Witness ==
    /\ call.op = "setSectorCount" /\ call.se = 2
    /\ sphere.sectorCount = 3
    /\ Returned

(***************************************************************************)
(* C2: in smooth and in flat mode every value stored in indices is         *)
(* strictly smaller than the vertex count.                                 *)
(***************************************************************************)
C2_IndicesInRange ==
    \A k \in 1..Len(sphere.indices) : sphere.indices[k] < getVertexCount(sphere)

C2_Witness ==
    /\ sphere.smooth
    /\ sphere.stackCount >= 3
    /\ \E k \in 1..Len(sphere.indices) : sphere.indices[k] = getVertexCount(sphere) - 2

(***************************************************************************)
(* C3: in flat mode the normals stored for the three corners of every      *)
(* emitted triangle are equal to one another and to the face normal of     *)
(* that triangle.                                                          *)
(***************************************************************************)
C3_FlatFaceNormals ==
    ~sphere.smooth =>
        \A t \in Triangles(sphere) :
            /\ NormalAt(sphere, Corner(sphere, t, 0)) = NormalAt(sphere, Corner(sphere, t, 1))
            /\ NormalAt(sphere, Corner(sphere, t, 1)) = NormalAt(sphere, Corner(sphere, t, 2))
            /\ NormalAt(sphere, Corner(sphere, t, 0)) = FaceNormalOf(sphere, t)

(***************************************************************************)
(* C4: after every build normals is as long as vertices and texCoords has  *)
(* 2 entries for every 3 of vertices, so the three counts agree.           *)
(***************************************************************************)
C4_ArrayLengths ==
    /\ Len(sphere.normals) = Len(sphere.vertices)
    /\ 3 * Len(sphere.texCoords) = 2 * Len(sphere.vertices)
    /\ Len(sphere.vertices) % 3 = 0
    /\ getVertexCount(sphere) = getNormalCount(sphere)
    /\ getNormalCount(sphere) = getTexCoordCount(sphere)

C4_Witness ==
    /\ call.op = "setSmooth"
    /\ ~sphere.smooth
    /\ sphere.stackCount >= 3
    /\ getVertexCount(sphere) > 0

(***************************************************************************)
(* C5: in smooth mode the vertex count is (sectorCount+1)*(stackCount+1),  *)
(* for every radius, and that many vertices are written.                   *)
(***************************************************************************)
C5_SmoothVertexCount ==
    sphere.smooth =>
        /\ getVertexCount(sphere) = (sphere.sectorCount + 1) * (sphere.stackCount + 1)
        /\ built.ii = 3 * (sphere.sectorCount + 1) * (sphere.stackCount + 1)

C5_Witness ==
    /\ sphere.smooth
    /\ sphere.radius = 2 * One
    /\ sphere.sectorCount = 4 /\ sphere.stackCount = 3
    /\ getVertexCount(sphere) = 20

(***************************************************************************)
(* C6: in smooth mode the index loop emits exactly                         *)
(* 6*sectorCount*(stackCount-1) indices, the length of the index array:    *)
(* 3 sectors and 2 stacks give 12 vertices and 18 indices.                 *)
(***************************************************************************)
C6_SmoothIndexCount ==
    sphere.smooth =>
        /\ built.kk = 6 * sphere.sectorCount * (sphere.stackCount - 1)
        /\ getIndexCount(sphere) = built.kk
        /\ sphere.sectorCount = 3 /\ sphere.stackCount = 2
               => getVertexCount(sphere) = 12 /\ getIndexCount(sphere) = 18

C6_Witness ==
    /\ sphere.smooth
    /\ sphere.sectorCount = 3 /\ sphere.stackCount = 2
    /\ built.kk = 18

(***************************************************************************)
(* C7: in flat mode getTriangleCount() is                                  *)
(* sectorCount + sectorCount + 2*sectorCount*(stackCount-2), and that many *)
(* triangles are emitted.                                                  *)
(***************************************************************************)
C7_FlatTriangleCount ==
    ~sphere.smooth =>
        /\ getTriangleCount(sphere) =
               sphere.sectorCount + sphere.sectorCount
               + 2 * sphere.sectorCount * (sphere.stackCount - 2)
        /\ built.kk = 3 * getTriangleCount(sphere)

C7_Witness ==
    /\ ~sphere.smooth
    /\ sphere.sectorCount = 3 /\ sphere.stackCount = 3
    /\ getTriangleCount(sphere) = 12

(***************************************************************************)
(* C8: in flat mode with 4 sectors and 3 stacks the mesh has exactly 8     *)
(* triangles: 4 at the top pole, 4 at the bottom pole, none in between.    *)
(***************************************************************************)
C8_Flat4x3Has8 ==
    ~sphere.smooth /\ sphere.sectorCount = 4 /\ sphere.stackCount = 3 =>
        /\ getTriangleCount(sphere) = 8
        /\ Cardinality(TrianglesAt(sphere, sphere.radius)) = 4
        /\ Cardinality(TrianglesAt(sphere, -sphere.radius)) = 4

(***************************************************************************)
(* C8, amended: in flat mode with 4 sectors and 3 stacks the mesh has      *)
(* exactly 16 triangles: 4 at the top pole, 4 at the bottom pole and 8 in  *)
(* the one stack between them.                                             *)
(***************************************************************************)
C8_Flat4x3Has16 ==
    ~sphere.smooth /\ sphere.sectorCount = 4 /\ sphere.stackCount = 3 =>
        /\ getTriangleCount(sphere) = 16
        /\ built.kk = 48
        /\ Cardinality(TrianglesAt(sphere, sphere.radius)) = 4
        /\ Cardinality(TrianglesAt(sphere, -sphere.radius)) = 4
        /\ Cardinality(Triangles(sphere) \ (TrianglesAt(sphere, sphere.radius)
                                             \cup TrianglesAt(sphere, -sphere.radius))) = 8

C8_Witness ==
    /\ ~sphere.smooth /\ sphere.sectorCount = 4 /\ sphere.stackCount = 3
    /\ getTriangleCount(sphere) = 16

(***************************************************************************)
(* C9: interleavedVertices has 8 entries a vertex, and the entries of      *)
(* vertex v are its position, then its normal, then its texture            *)
(* coordinates, as the three arrays hold them.                             *)
(***************************************************************************)
C9_Interleaved ==
    /\ Len(sphere.interleavedVertices) = 8 * getVertexCount(sphere)
    /\ \A v \in 0..(getVertexCount(sphere) - 1) :
           SubSeq(sphere.interleavedVertices, 8 * v + 1, 8 * v + 8)
               = VertexAt(sphere, v) \o NormalAt(sphere, v) \o TexCoordAt(sphere, v)

C9_Witness ==
    /\ ~sphere.smooth
    /\ Len(sphere.interleavedVertices) = 8 * getVertexCount(sphere)
    /\ \E v \in 0..(getVertexCount(sphere) - 1) :
           /\ TexCoordAt(sphere, v)[1] /= TexCoordAt(sphere, v)[2]
           /\ NormalAt(sphere, v) /= VertexAt(sphere, v)
           /\ SubSeq(sphere.interleavedVertices, 8 * v + 7, 8 * v + 8) = TexCoordAt(sphere, v)

(***************************************************************************)
(* C10: after the constructor and after every call of set or a setter has  *)
(* returned, the data last uploaded to vboVertex is the current            *)
(* interleavedVertices and the data last uploaded to vboIndex is the       *)
(* current indices.                                                        *)
(***************************************************************************)
C10_BuffersCurrent ==
    Returned =>
        /\ sphere.vboVertex \in 1..Len(gl.buffers)
        /\ sphere.vboIndex \in 1..Len(gl.buffers)
        /\ gl.buffers[sphere.vboVertex] = sphere.interleavedVertices
        /\ gl.buffers[sphere.vboIndex] = sphere.indices

C10_Witness ==
    /\ Returned
    /\ call.op = "setStackCount"
    /\ sphere.stackCount = 3
    /\ gl.buffers[sphere.vboIndex] = sphere.indices
    /\ Len(sphere.indices) > 0

(***************************************************************************)
(* C11: the mesh depends only on the current parameters: whatever calls    *)
(* came before, the five arrays are element for element those of a Sphere  *)
(* newly constructed with the current radius, sectorCount, stackCount and  *)
(* smooth; nothing of an earlier build is left in them.                    *)
(***************************************************************************)
C11_SameAsNew ==
    \A new \in {Sphere(NewContext, sphere.gl, sphere.radius, sphere.sectorCount,
                       sphere.stackCount, sphere.smooth).sphere} :
        /\ sphere.vertices = new.vertices
        /\ sphere.normals = new.normals
        /\ sphere.texCoords = new.texCoords
        /\ sphere.indices = new.indices
        /\ sphere.interleavedVertices = new.interleavedVertices

\* a flat mesh with an interior stack, rebuilt by a setter after a larger build
C11_Witness ==
    /\ call.op = "setSectorCount"
    /\ ~sphere.smooth
    /\ sphere.sectorCount = 3 /\ sphere.stackCount = 3
    /\ Len(sphere.normals) = 90
    /\ NormalAt(sphere, 12) = <<0, 0, 0>>

(***************************************************************************)
(* Sphere.computeFaceNormal on its own: a caller passes three points and   *)
(* receives the normal.                                                    *)
(***************************************************************************)
Points ==
    {<<0, 0, 0>>, <<One, 0, 0>>, <<0, One, 0>>, <<0, 0, One>>, <<2 * One, 0, 0>>,
     <<One, One, 0>>, <<One \div 2, One \div 4, -One>>,
     <<One \div 25, 0, 0>>, <<0, One \div 20, 0>>}

InitFace ==
    /\ \E p1 \in Points, p2 \in Points, p3 \in Points :
           face = [run |-> TRUE, p1 |-> p1, p2 |-> p2, p3 |-> p3, normal |-> <<>>]
    /\ sphere = NotRun /\ gl = NotRun /\ built = NotRun /\ threw = FALSE
    /\ call = NotRun
    /\ page = NotRun /\ degree = NotRun /\ motion = NotRun
    /\ cell = NotRun /\ controls = NotRun /\ slide = NotRun

CallComputeFaceNormal ==
    /\ face.normal = <<>>
    /\ face' = [face EXCEPT !.normal =
                    computeFaceNormal(face.p1[1], face.p1[2], face.p1[3],
                                      face.p2[1], face.p2[2], face.p2[3],
                                      face.p3[1], face.p3[2], face.p3[3])]
    /\ UNCHANGED <<sphereVars, page, degree, motion, moreVars>>

NextFace == CallComputeFaceNormal

SpecFace == InitFace /\ [][NextFace]_vars

\* the two edges from the first point, their cross product and its length
Edge(p, q) == <<q[1] - p[1], q[2] - p[2], q[3] - p[3]>>
Cross(a, b) ==
    <<Mul(a[2], b[3]) - Mul(a[3], b[2]),
      Mul(a[3], b[1]) - Mul(a[1], b[3]),
      Mul(a[1], b[2]) - Mul(a[2], b[1])>>
Length(n) == MathSqrt(n[1] * n[1] + n[2] * n[2] + n[3] * n[3])

\* two of the points coincide or the three are on one line
Collinear(p1, p2, p3) ==
    LET a == Edge(p1, p2)
        b == Edge(p1, p3)
    IN  /\ a[2] * b[3] = a[3] * b[2]
        /\ a[3] * b[1] = a[1] * b[3]
        /\ a[1] * b[2] = a[2] * b[1]

C13_ConstructorCompletes ==
    call.op = "new" =>
        /\ Returned
        /\ Len(sphere.vertices) > 0
        /\ Len(sphere.normals) = Len(sphere.vertices)
        /\ 3 * Len(sphere.texCoords) = 2 * Len(sphere.vertices)
        /\ Len(sphere.indices) = 6 * sphere.sectorCount * (sphere.stackCount - 1)
        /\ Len(sphere.interleavedVertices) = 8 * getVertexCount(sphere)

\* two steps of the resolution of the numbers
Tolerance == One \div 50

(***************************************************************************)
(* C14: in smooth mode, for every vertex and every radius, the stored      *)
(* normal is the stored position multiplied component by component by      *)
(* 1/radius, and its length is 1 within the tolerance.                     *)
(***************************************************************************)
C14_SmoothUnitNormals ==
    sphere.smooth =>
        \A lengthInv \in {Div(One, sphere.radius)} :
            \A v \in 0..(getVertexCount(sphere) - 1) :
                \A p \in {VertexAt(sphere, v)}, n \in {NormalAt(sphere, v)} :
                    /\ n = <<Mul(p[1], lengthInv), Mul(p[2], lengthInv),
                             Mul(p[3], lengthInv)>>
                    /\ Length(n) - One <= Tolerance
                    /\ One - Length(n) <= Tolerance

\* radius 2: a vertex off the axes, whose normal is half its position
C14_Witness ==
    /\ sphere.smooth
    /\ sphere.radius = 2 * One
    /\ \E v \in 0..(getVertexCount(sphere) - 1) :
           /\ \A c \in 1..3 : VertexAt(sphere, v)[c] /= 0
           /\ \A c \in 1..3 : NormalAt(sphere, v)[c] = Mul(VertexAt(sphere, v)[c], One \div 2)
           /\ NormalAt(sphere, v) /= VertexAt(sphere, v)

(***************************************************************************)
(* The page scripts (src/unnamed/part_000 and its older variant part_002): *)
(* main() constructs the Sphere and asks for the first frame; the browser  *)
(* then runs frame callbacks and, at some moment or never, fires the load  *)
(* event of the texture image.  The Sphere of the page (60 x 60 or         *)
(* 30 x 30) is built at the largest size of the model.                     *)
(***************************************************************************)
MaxFrames == 10     \* frame callbacks the browser runs

Scripts == {"part_000", "part_002"}

SphereSize(script) == IF script = "part_000" THEN 60 ELSE 30
Capped(n, max) == IF n > max THEN max ELSE n

\* requestAnimationFrame(drawScene): one more callback waits for a frame
requestAnimationFrame(p) == [p EXCEPT !.pending = @ + 1]

\* main(), to its end; hasGl is FALSE when canvas.getContext returns nothing
main(script, hasGl) ==
    LET p == [run |-> TRUE, script |-> script, gl |-> hasGl, listening |-> FALSE,
              tLoaded |-> FALSE, pending |-> 0, frames |-> 0, draws |-> 0,
              last |-> [ran |-> FALSE]]
    IN  IF ~hasGl
        THEN [page |-> p, world |-> [sphere |-> NotRun, gl |-> NotRun,
                                     built |-> NotRun, threw |-> FALSE]]
        ELSE [page |-> requestAnimationFrame([p EXCEPT !.listening = TRUE]),
              world |-> Sphere(NewContext, TRUE, One,
                               Capped(SphereSize(script), MaxSectors),
                               Capped(SphereSize(script), MaxStacks), TRUE)]

\* drawScene without the test of tLoaded
drawScene_noskip(p, g, s) ==
    LET g1 == IF p.script = "part_002"
              THEN Only({bindBuffer(c, "ARRAY_BUFFER", Len(c.buffers)) :
                         c \in {createBuffer(g)}})
              ELSE g
        g2 == bindBuffer(g1, "ARRAY_BUFFER", s.vboVertex)
        g3 == bindBuffer(g2, "ELEMENT_ARRAY_BUFFER", s.vboIndex)
    IN  [page |-> requestAnimationFrame([p EXCEPT !.draws = @ + 1]), gl |-> g3]

\* drawScene(now): one frame callback, in the GL context g, drawing the Sphere s
drawScene(p, g, s) ==
    IF ~p.tLoaded
    THEN [page |-> requestAnimationFrame(p), gl |-> g]
    ELSE LET g1 == IF p.script = "part_002"
                   THEN Only({bindBuffer(c, "ARRAY_BUFFER", Len(c.buffers)) :
                              c \in {createBuffer(g)}})
                   ELSE g
             g2 == bindBuffer(g1, "ARRAY_BUFFER", s.vboVertex)
             g3 == bindBuffer(g2, "ELEMENT_ARRAY_BUFFER", s.vboIndex)
         IN  [page |-> requestAnimationFrame([p EXCEPT !.draws = @ + 1]), gl |-> g3]

InitPage ==
    /\ \E script \in Scripts, hasGl \in BOOLEAN :
           \E m \in {main(script, hasGl)} :
               /\ page = m.page
               /\ sphere = m.world.sphere
               /\ gl = m.world.gl
               /\ built = m.world.built
               /\ threw = m.world.threw
               /\ call = [op |-> "new", se |-> SphereSize(script),
                          st |-> SphereSize(script)]
    /\ face = NotRun /\ degree = NotRun /\ motion = NotRun
    /\ cell = NotRun /\ controls = NotRun /\ slide = NotRun

\* the browser runs one of the frame callbacks that wait
Frame ==
    /\ page.pending > 0
    /\ page.frames < MaxFrames
    /\ \E r \in {drawScene([page EXCEPT !.pending = @ - 1, !.frames = @ + 1], gl, sphere)} :
           /\ page' = [r.page EXCEPT !.last =
                           [ran |-> TRUE, loaded |-> page.tLoaded,
                            drew |-> r.page.draws - page.draws,
                            scheduled |-> r.page.pending - (page.pending - 1),
                            context |-> r.gl = gl]]
           /\ gl' = r.gl
    /\ UNCHANGED <<sphere, built, threw, call, face, degree, motion, moreVars>>

\* the load event of the image fires: the listener sets tLoaded
ImageLoad ==
    /\ page.listening
    /\ page' = [page EXCEPT !.tLoaded = TRUE, !.listening = FALSE]
    /\ UNCHANGED <<sphereVars, face, degree, motion, moreVars>>

NextPage ==
    \/ Frame
    \/ ImageLoad

SpecPage == InitPage /\ [][NextPage]_vars

(***************************************************************************)
(* C15: a frame that runs before the load event of the texture image       *)
(* issues no draw call: it only schedules the next frame; every frame that *)
(* runs after the load event draws; every frame callback, skipped or       *)
(* drawn, schedules exactly one next frame.                                *)
(***************************************************************************)
C15_DrawOnlyWhenLoaded ==
    page.run /\ page.last.ran =>
        /\ ~page.last.loaded => page.last.drew = 0 /\ page.last.context
        /\ page.last.loaded => page.last.drew = 1
        /\ page.last.scheduled = 1
        /\ page.pending = 1
        /\ page.draws <= page.frames
        /\ ~page.tLoaded => page.draws = 0

\* frames were skipped, then the image loaded, then a frame drew
C15_Witness ==
    /\ page.run /\ page.last.ran
    /\ page.last.loaded /\ page.last.drew = 1
    /\ page.frames > page.draws
    /\ page.draws > 0

(***************************************************************************)
(* C16: buffer objects are created only when the Sphere is constructed,    *)
(* exactly two; however many frames are drawn no further buffer is         *)
(* created, and the two handles of the Sphere never change.                *)
(***************************************************************************)
C16_TwoBuffersOnly ==
    page.run /\ page.gl =>
        /\ Len(gl.buffers) = 2
        /\ sphere.vboVertex = 1
        /\ sphere.vboIndex = 2

(***************************************************************************)
(* webglUtils.js: normalizeDegree applied to an integer angle.             *)
(***************************************************************************)
MaxDegree == 725    \* largest angle passed, in degrees, either side of 0

\* a % b of JavaScript: the remainder has the sign of a
Rem(a, b) == IF a >= 0 THEN a % b ELSE -((-a) % b)

\* normalizeDegree with >= in the first test
normalizeDegree_ge(angle) ==
    LET a == Rem(angle, 360)
    IN  IF a >= 180 THEN a - 360
        ELSE IF a <= -180 THEN a + 360
        ELSE a

normalizeDegree(angle) ==
    LET a == Rem(angle, 360)
    IN  IF a > 180 THEN a - 360
        ELSE IF a <= -180 THEN a + 360
        ELSE a

InitDegree ==
    /\ \E angle \in (-MaxDegree)..MaxDegree :
           degree = [run |-> TRUE, angle |-> angle, returned |-> FALSE, a |-> 0]
    /\ sphere = NotRun /\ gl = NotRun /\ built = NotRun /\ threw = FALSE
    /\ call = NotRun
    /\ face = NotRun /\ page = NotRun /\ motion = NotRun
    /\ cell = NotRun /\ controls = NotRun /\ slide = NotRun

CallNormalizeDegree ==
    /\ ~degree.returned
    /\ degree' = [degree EXCEPT !.returned = TRUE, !.a = normalizeDegree(degree.angle)]
    /\ UNCHANGED <<sphereVars, face, page, motion, moreVars>>

NextDegree == CallNormalizeDegree

SpecDegree == InitDegree /\ [][NextDegree]_vars

(***************************************************************************)
(* C17: for every integer angle in degrees, positive, negative or zero,    *)
(* normalizeDegree returns a with -180 < a <= 180 that differs from the    *)
(* angle by a whole multiple of 360.                                       *)
(***************************************************************************)
C17_NormalizeDegree ==
    degree.run /\ degree.returned =>
        /\ -180 < degree.a
        /\ degree.a <= 180
        /\ \E turns \in -3..3 : degree.a = degree.angle + 360 * turns

\* -540 has the remainder -180, which the second test brings to 180
C17_Witness ==
    /\ degree.run /\ degree.returned
    /\ degree.angle = -540
    /\ degree.a = 180

(***************************************************************************)
(* webglUtils.js: adjustSpeed, called frame after frame on the speed it    *)
(* returned, starting from speed 0 with a fixed maxSpeed.                  *)
(***************************************************************************)
MaxSpeeds == {-2 * One, -(One \div 2), One \div 2, 2 * One}
Accels == {0, One, 3 * One}
DeltaTimes == {0, One \div 4, One}

\* adjustSpeed without the test that stops a deceleration at 0
adjustSpeed_nofloor(isMoving, currSpeed, maxSpeed, accel, deltaTime) ==
    LET sign == IF maxSpeed > 0 THEN 1 ELSE -1
        step == Mul(sign * accel, deltaTime)
    IN  IF isMoving
        THEN IF sign * (currSpeed + step) > sign * maxSpeed
             THEN maxSpeed
             ELSE currSpeed + step
        ELSE currSpeed - step

adjustSpeed(isMoving, currSpeed, maxSpeed, accel, deltaTime) ==
    LET sign == IF maxSpeed > 0 THEN 1 ELSE -1
        step == Mul(sign * accel, deltaTime)
    IN  IF isMoving
        THEN IF sign * (currSpeed + step) > sign * maxSpeed
             THEN maxSpeed
             ELSE currSpeed + step
        ELSE IF sign * (currSpeed - step) < 0
             THEN 0
             ELSE currSpeed - step

InitMotion ==
    /\ \E maxSpeed \in MaxSpeeds :
           motion = [run |-> TRUE, maxSpeed |-> maxSpeed, currSpeed |-> 0,
                     last |-> [called |-> FALSE]]
    /\ sphere = NotRun /\ gl = NotRun /\ built = NotRun /\ threw = FALSE
    /\ call = NotRun
    /\ face = NotRun /\ page = NotRun /\ degree = NotRun
    /\ cell = NotRun /\ controls = NotRun /\ slide = NotRun

CallAdjustSpeed ==
    /\ \E isMoving \in BOOLEAN, accel \in Accels, deltaTime \in DeltaTimes :
           motion' = [motion EXCEPT
                          !.currSpeed = adjustSpeed(isMoving, motion.currSpeed,
                                                    motion.maxSpeed, accel, deltaTime),
                          !.last = [called |-> TRUE, isMoving |-> isMoving,
                                    from |-> motion.currSpeed,
                                    step |-> Mul(accel, deltaTime)]]
    /\ UNCHANGED <<sphereVars, face, page, degree, moreVars>>

NextMotion == CallAdjustSpeed

SpecMotion == InitMotion /\ [][NextMotion]_vars

\* v lies between 0 and limit, both included, whatever the sign of limit
Between0(v, limit) == IF limit > 0 THEN 0 <= v /\ v <= limit ELSE limit <= v /\ v <= 0

(***************************************************************************)
(* C18: from speed 0, with a fixed maxSpeed of either sign, accel >= 0 and *)
(* deltaTime >= 0, after any sequence of adjustSpeed calls with isMoving   *)
(* true or false the speed lies between 0 and maxSpeed, both included: an  *)
(* acceleration past maxSpeed gives exactly maxSpeed and a deceleration    *)
(* past 0 gives exactly 0.                                                 *)
(***************************************************************************)
C18_SpeedWithinLimits ==
    motion.run =>
        /\ Between0(motion.currSpeed, motion.maxSpeed)
        /\ motion.last.called =>
               \A raw \in {IF (motion.maxSpeed > 0) = motion.last.isMoving
                           THEN motion.last.from + motion.last.step
                           ELSE motion.last.from - motion.last.step} :
                   /\ Between0(raw, motion.maxSpeed) => motion.currSpeed = raw
                   /\ ~Between0(raw, motion.maxSpeed) /\ motion.last.isMoving
                          => motion.currSpeed = motion.maxSpeed
                   /\ ~Between0(raw, motion.maxSpeed) /\ ~motion.last.isMoving
                          => motion.currSpeed = 0

\* a negative maxSpeed: a deceleration that would pass 0 stops at 0
C18_Witness ==
    /\ motion.run /\ motion.last.called
    /\ motion.maxSpeed = -2 * One
    /\ ~motion.last.isMoving
    /\ motion.last.from = -(One \div 4)
    /\ motion.last.step = One
    /\ motion.currSpeed = 0

\* indices a cell of stack i emits in smooth mode, and the indices emitted
\* before the first cell of stack i
SmoothCellIndices(s, i) ==
    (IF i /= 0 THEN 3 ELSE 0) + (IF i /= s.stackCount - 1 THEN 3 ELSE 0)
SmoothIndicesBefore(s, i) ==
    IF i = 0 THEN 0 ELSE s.sectorCount * (3 + 6 * (i - 1))

(***************************************************************************)
(* C19: in smooth mode, walking the stacks i = 0..stackCount-1 and in each *)
(* the sectors j = 0..sectorCount-1, with k1 = i*(sectorCount+1)+j and     *)
(* k2 = k1+sectorCount+1, the index array is exactly, in this order,       *)
(* triangle (k1, k2, k1+1) of every cell with i /= 0 followed by triangle  *)
(* (k1+1, k2, k2+1) of every cell with i /= stackCount-1: none other is    *)
(* emitted and none of these is left out.                                  *)
(***************************************************************************)
C19_SmoothIndexOrder ==
    sphere.smooth =>
        /\ Len(sphere.indices) = SmoothIndicesBefore(sphere, sphere.stackCount - 1)
                                 + 3 * sphere.sectorCount
        /\ built.kk = Len(sphere.indices)
        /\ \A i \in 0..(sphere.stackCount - 1), j \in 0..(sphere.sectorCount - 1) :
               \A k1 \in {i * (sphere.sectorCount + 1) + j} :
                   \A k2 \in {k1 + sphere.sectorCount + 1} :
                       \A at \in {SmoothIndicesBefore(sphere, i)
                                  + j * SmoothCellIndices(sphere, i)} :
                           SubSeq(sphere.indices, at + 1, at + SmoothCellIndices(sphere, i))
                               = (IF i /= 0 THEN <<k1, k2, k1 + 1>> ELSE <<>>)
                                 \o (IF i /= sphere.stackCount - 1
                                     THEN <<k1 + 1, k2, k2 + 1>> ELSE <<>>)

\* 4 sectors and 3 stacks: the cell i = 1, j = 1 has both of its triangles
C19_Witness ==
    /\ sphere.smooth
    /\ sphere.sectorCount = 4 /\ sphere.stackCount = 3
    /\ SubSeq(sphere.indices, 19, 24) = <<6, 11, 7, 7, 11, 12>>

\* flat mode: the vertices and triangles a cell of stack i emits, and the
\* first vertex and first triangle of stack i
FlatCellVertices(s, i) == IF i = 0 \/ i = s.stackCount - 1 THEN 3 ELSE 4
FlatCellTriangles(s, i) == IF i = 0 \/ i = s.stackCount - 1 THEN 1 ELSE 2
FlatFirstVertex(s, i) == IF i = 0 THEN 0 ELSE s.sectorCount * (3 + 4 * (i - 1))
FlatFirstTriangle(s, i) == IF i = 0 THEN 0 ELSE s.sectorCount * (1 + 2 * (i - 1))

\* the grid of (x, y, z, s, t) that buildVerticesFlat computes first
FlatGrid(s) == FlatVertexLoop(Begin(s)).tmpVertices

\* vertex v of the arrays is the grid point p
IsGridPoint(s, v, p) ==
    /\ VertexAt(s, v) = <<p.x, p.y, p.z>>
    /\ TexCoordAt(s, v) = <<p.s, p.t>>

\* the number of corners of triangles that refer to vertex v
References(s, v) ==
    Cardinality({tc \in Triangles(s) \X (0..2) : Corner(s, tc[1], tc[2]) = v})

(***************************************************************************)
(* C20: in flat mode every grid cell (i,j) emits its own new vertices: the *)
(* corners (v1,v2,v4) as one triangle in the first stack, (v1,v2,v3) as    *)
(* one triangle in the last stack, and (v1,v2,v3,v4) with the triangles    *)
(* (v1,v2,v3) and (v3,v2,v4) in any other stack; no index is referenced by *)
(* triangles of two cells, and the only indices referenced twice are the   *)
(* two shared corners v2, v3 of an interior cell's own quad.               *)
(***************************************************************************)
C20_FlatCellsOwnVertices ==
    ~sphere.smooth =>
        \A grid \in {FlatGrid(sphere)} :
            /\ getVertexCount(sphere)
                   = FlatFirstVertex(sphere, sphere.stackCount - 1) + 3 * sphere.sectorCount
            /\ getTriangleCount(sphere)
                   = FlatFirstTriangle(sphere, sphere.stackCount - 1) + sphere.sectorCount
            /\ \A i \in 0..(sphere.stackCount - 1), j \in 0..(sphere.sectorCount - 1) :
                   \A v \in {FlatFirstVertex(sphere, i) + j * FlatCellVertices(sphere, i)},
                      t \in {FlatFirstTriangle(sphere, i) + j * FlatCellTriangles(sphere, i)},
                      v1 \in {At(grid, i * (sphere.sectorCount + 1) + j)},
                      v2 \in {At(grid, (i + 1) * (sphere.sectorCount + 1) + j)},
                      v3 \in {At(grid, i * (sphere.sectorCount + 1) + j + 1)},
                      v4 \in {At(grid, (i + 1) * (sphere.sectorCount + 1) + j + 1)} :
                       /\ IsGridPoint(sphere, v, v1)
                       /\ IsGridPoint(sphere, v + 1, v2)
                       /\ IsGridPoint(sphere, v + 2, IF i = 0 THEN v4 ELSE v3)
                       /\ SubSeq(sphere.indices, 3 * t + 1, 3 * t + 3) = <<v, v + 1, v + 2>>
                       /\ References(sphere, v) = 1
                       /\ FlatCellVertices(sphere, i) = 3 =>
                              /\ References(sphere, v + 1) = 1
                              /\ References(sphere, v + 2) = 1
                       /\ FlatCellVertices(sphere, i) = 4 =>
                              /\ IsGridPoint(sphere, v + 3, v4)
                              /\ SubSeq(sphere.indices, 3 * t + 4, 3 * t + 6)
                                     = <<v + 2, v + 1, v + 3>>
                              /\ References(sphere, v + 1) = 2
                              /\ References(sphere, v + 2) = 2
                              /\ References(sphere, v + 3) = 1

\* 3 sectors and 3 stacks: the interior cell i = 1, j = 1 owns vertices 13..16
C20_Witness ==
    /\ ~sphere.smooth
    /\ sphere.sectorCount = 3 /\ sphere.stackCount = 3
    /\ SubSeq(sphere.indices, 16, 21) = <<13, 14, 15, 15, 14, 16>>
    /\ References(sphere, 14) = 2
    /\ References(sphere, 16) = 1
    /\ IsGridPoint(sphere, 16, At(FlatGrid(sphere), 2 * 4 + 2))

(***************************************************************************)
(* C21: in flat mode, for every sectorCount >= 3 and stackCount >= 2, the  *)
(* cell loop emits as many vertices as resizeArraysFlat allocated,         *)
(* 6*sectorCount + 4*sectorCount*(stackCount-2), and as many indices,      *)
(* 6*sectorCount*(stackCount-1): its counters end at the lengths of the    *)
(* arrays, so no write falls past an end and no slot is left unwritten.    *)
(***************************************************************************)
C21_FlatEmittedIsAllocated ==
    ~sphere.smooth =>
        /\ built.index = 6 * sphere.sectorCount
                             + 4 * sphere.sectorCount * (sphere.stackCount - 2)
        /\ built.index = getVertexCount(sphere)
        /\ built.ii = Len(sphere.vertices)
        /\ built.jj = Len(sphere.texCoords)
        /\ built.kk = 6 * sphere.sectorCount * (sphere.stackCount - 1)
        /\ built.kk = Len(sphere.indices)

\* 4 sectors and 3 stacks: 40 vertices and 48 indices, allocated and emitted
C21_Witness ==
    /\ ~sphere.smooth
    /\ sphere.sectorCount = 4 /\ sphere.stackCount = 3
    /\ built.index = 40 /\ getVertexCount(sphere) = 40
    /\ built.kk = 48 /\ Len(sphere.indices) = 48

(***************************************************************************)
(* One cell of the index loops on its own, for Spheres too large to build  *)
(* whole: set accepts any sectorCount >= 3 and stackCount >= 2.  cell i, j *)
(* is reached with the counters the loop has there; of the arrays only the *)
(* slots this cell writes are kept (the window starts at ii, jj, kk), and  *)
(* of tmpVertices only the four corners it reads.                          *)
(***************************************************************************)
MaxCount == 300     \* largest sector and stack count of a Sphere

SectorCounts == {3, 4, 60, 128, 129, 255, 256, MaxCount}
StackCounts == {2, 3, 60, 128, 129, 255, 256, MaxCount}

\* the build state at cell i, j of the index loop of buildVerticesSmooth, or
\* of the cell loop of buildVerticesFlat, of a Sphere of se sectors and st stacks
AtCell(smooth, se, st, i, j) ==
    LET s == [sectorCount |-> se, stackCount |-> st, smooth |-> smooth,
              vertices |-> Zeros(12), normals |-> Zeros(12),
              texCoords |-> Zeros(8), indices |-> Zeros(6)]
        corners == {i * (se + 1) + j, i * (se + 1) + j + 1,
                    (i + 1) * (se + 1) + j, (i + 1) * (se + 1) + j + 1}
    IN  [Begin(s) EXCEPT
            !.i = i, !.j = j,
            !.index = IF smooth THEN 0
                      ELSE FlatFirstVertex(s, i) + j * FlatCellVertices(s, i),
            !.tmpVertices = [k \in {c + 1 : c \in corners} |->
                                 [x |-> 0, y |-> 0, z |-> 0, s |-> 0, t |-> 0]]]

\* the vertex numbers the generator computes for the corners of the cell
Computed(c) ==
    IF c.smooth
    THEN LET k1 == c.i * (c.sectorCount + 1) + c.j
             k2 == k1 + c.sectorCount + 1
         IN  (IF c.i /= 0 THEN <<k1, k2, k1 + 1>> ELSE <<>>)
             \o (IF c.i /= c.stackCount - 1 THEN <<k1 + 1, k2, k2 + 1>> ELSE <<>>)
    ELSE LET index == FlatFirstVertex(c, c.i) + c.j * FlatCellVertices(c, c.i)
         IN  <<index, index + 1, index + 2>>
             \o (IF FlatCellVertices(c, c.i) = 4
                 THEN <<index + 2, index + 1, index + 3>> ELSE <<>>)

InitIndex ==
    /\ \E smooth \in BOOLEAN, se \in SectorCounts, st \in StackCounts :
           \E i \in {0, 1, st - 2, st - 1}, j \in {0, se - 1} :
               cell = [run |-> TRUE, smooth |-> smooth, sectorCount |-> se,
                       stackCount |-> st, i |-> i, j |-> j, emitted |-> FALSE,
                       indices |-> <<>>]
    /\ sphere = NotRun /\ gl = NotRun /\ built = NotRun /\ threw = FALSE
    /\ call = NotRun
    /\ face = NotRun /\ page = NotRun /\ degree = NotRun /\ motion = NotRun
    /\ controls = NotRun /\ slide = NotRun

\* the turn of the loop for the cell: what it leaves in the index array
EmitCell ==
    /\ ~cell.emitted
    /\ \E from \in {AtCell(cell.smooth, cell.sectorCount, cell.stackCount,
                           cell.i, cell.j)} :
           \E b \in {IF cell.smooth THEN SmoothIndexStep(from) ELSE FlatCellStep(from)} :
               cell' = [cell EXCEPT !.emitted = TRUE,
                                    !.indices = SubSeq(b.sphere.indices, 1, b.kk)]
    /\ UNCHANGED <<sphereVars, face, page, degree, motion, controls, slide>>

NextIndex == EmitCell

SpecIndex == InitIndex /\ [][NextIndex]_vars

(***************************************************************************)
(* C22: for every sectorCount and stackCount that set accepts, every value *)
(* stored in the unsigned 16-bit index array is the vertex number the      *)
(* generator computed for that corner: storing an index never wraps        *)
(* modulo 2^16.                                                            *)
(***************************************************************************)
C22_IndicesStoredAsComputed ==
    cell.run /\ cell.emitted => cell.indices = Computed(cell)

(***************************************************************************)
(* C23: in smooth mode, in every stack row i = 0..stackCount, the vertex   *)
(* of column sectorCount has the position and the normal of the vertex of  *)
(* column 0 of that row; its texture coordinate s is 1 where column 0 has  *)
(* 0, and both have t = i/stackCount.                                      *)
(***************************************************************************)
C23_SeamDuplicatesColumn0 ==
    sphere.smooth =>
        \A i \in 0..sphere.stackCount :
            \A first \in {i * (sphere.sectorCount + 1)} :
                \A last \in {first + sphere.sectorCount} :
                    /\ VertexAt(sphere, last) = VertexAt(sphere, first)
                    /\ NormalAt(sphere, last) = NormalAt(sphere, first)
                    /\ TexCoordAt(sphere, first)
                           = <<0, Div(Num(i), Num(sphere.stackCount))>>
                    /\ TexCoordAt(sphere, last)
                           = <<One, Div(Num(i), Num(sphere.stackCount))>>

\* 4 sectors and 2 stacks, radius 2: the equator row starts and ends at (2, 0, 0)
C23_Witness ==
    /\ sphere.smooth
    /\ sphere.sectorCount = 4 /\ sphere.stackCount = 2 /\ sphere.radius = 2 * One
    /\ VertexAt(sphere, 5) = <<2 * One, 0, 0>>
    /\ VertexAt(sphere, 9) = <<2 * One, 0, 0>>
    /\ VertexAt(sphere, 7) = <<-2 * One, 0, 0>>
    /\ NormalAt(sphere, 9) = <<One, 0, 0>>
    /\ TexCoordAt(sphere, 5) = <<0, One \div 2>>
    /\ TexCoordAt(sphere, 9) = <<One, One \div 2>>

(***************************************************************************)
(* webglUtils.js: slideTo.  The element's style values are records         *)
(* [px |-> n] for the string n + "px".  Time is Date.now(), in ticks; the  *)
(* browser runs the frame callback that waits at any moment.  slideToFrame *)
(* reads a variable animId that none of these sources declares: where the  *)
(* page declares it the read gives a value, and where it does not the read *)
(* raises a ReferenceError that ends the callback.                         *)
(***************************************************************************)
MaxTime == 6        \* ticks of the clock after the call of slideTo

Durations == {0, 2, 4}

\* AnimationMode, as the comment before getInterpolateAlpha gives it
AnimationMode ==
    [LINEAR |-> 0, EASE_IN |-> 1, EASE_IN2 |-> 2, EASE_OUT |-> 3, EASE_OUT2 |-> 4,
     EASE_IN_OUT |-> 5, EASE_IN_OUT2 |-> 6, BOUNCE |-> 7, ELASTIC |-> 8]

Modes == 0..8

\* n + "px" and parseInt of it
Px(n) == [px |-> n]
parseInt(v) == v.px

\* Math.sqrt of a number, and Math.round of a number (an integer)
NumSqrt(x) == MathSqrt(x * One)
MathRound(x) == (x + One \div 2) \div One

getInterpolateAlpha(alpha, mode) ==
    LET beta == One - alpha
        cube(x) == Mul(Mul(x, x), x)
    IN  IF mode = AnimationMode.EASE_IN THEN cube(alpha)
        ELSE IF mode = AnimationMode.EASE_IN2 THEN One - NumSqrt(One - Mul(alpha, alpha))
        ELSE IF mode = AnimationMode.EASE_OUT THEN One - cube(beta)
        ELSE IF mode = AnimationMode.EASE_OUT2 THEN NumSqrt(One - Mul(beta, beta))
        ELSE IF mode = AnimationMode.EASE_IN_OUT
             THEN IF 2 * alpha < One THEN 4 * cube(alpha) ELSE One - 4 * cube(beta)
        ELSE IF mode = AnimationMode.EASE_IN_OUT2
             THEN IF 2 * alpha < One
                  THEN Mul(One \div 2, One - NumSqrt(One - Mul(alpha, alpha)))
                  ELSE Mul(One \div 2, NumSqrt(One - Mul(beta, beta))) + One \div 2
        ELSE alpha

interpolate(from, to, alpha, mode) ==
    Num(from) + Mul(Num(to - from), getInterpolateAlpha(alpha, mode))

\* slideTo(id, left, top, width, height, duration, mode, callback), to its end,
\* at time 0; element is the style of the element, or NotRun when there is none
slideTo(element, left, top, width, height, duration, mode, declared) ==
    LET a == [run |-> TRUE, found |-> element /= NotRun, style |-> element,
              from |-> NotRun, to |-> NotRun, duration |-> duration, mode |-> mode,
              animId |-> declared, now |-> 0, pending |-> 0, callbacks |-> 0,
              errors |-> 0, last |-> [ran |-> FALSE]]
    IN  IF element = NotRun THEN a
        ELSE [a EXCEPT
                 !.from = [left |-> parseInt(element.left), top |-> parseInt(element.top),
                           width |-> parseInt(element.width),
                           height |-> parseInt(element.height), time |-> a.now],
                 !.to = [left |-> left, top |-> top, width |-> width, height |-> height,
                         time |-> a.now + duration],
                 !.pending = 1]

\* slideToFrame()
slideToFrame(a) ==
    LET time == a.now
        alpha == Div(Num(time - a.from.time), Num(a.duration))
        at(field) == Px(MathRound(interpolate(a.from[field], a.to[field], alpha, a.mode)))
    IN  IF time >= a.to.time
        THEN LET done == [a EXCEPT !.style = [left |-> Px(a.to.left), top |-> Px(a.to.top),
                                              width |-> Px(a.to.width),
                                              height |-> Px(a.to.height)]]
             IN  IF a.animId THEN [done EXCEPT !.callbacks = @ + 1]
                 ELSE [done EXCEPT !.errors = @ + 1]
        ELSE [a EXCEPT !.style = [left |-> at("left"), top |-> at("top"),
                                  width |-> at("width"), height |-> at("height")],
                       !.pending = @ + 1]

InitSlide ==
    /\ \E found \in BOOLEAN, declared \in BOOLEAN, duration \in Durations, mode \in Modes,
          left \in {0, 30}, width \in {20, 45} :
           slide = slideTo(IF found
                           THEN [left |-> Px(10), top |-> Px(0), width |-> Px(20),
                                 height |-> Px(8)]
                           ELSE NotRun,
                           left, 5, width, 16, duration, mode, declared)
    /\ sphere = NotRun /\ gl = NotRun /\ built = NotRun /\ threw = FALSE
    /\ call = NotRun
    /\ face = NotRun /\ page = NotRun /\ degree = NotRun /\ motion = NotRun
    /\ cell = NotRun /\ controls = NotRun

\* the clock advances
SlideTick ==
    /\ slide.now < MaxTime
    /\ slide' = [slide EXCEPT !.now = @ + 1]
    /\ UNCHANGED <<sphereVars, face, page, degree, motion, cell, controls>>

\* the browser runs the frame callback that waits
SlideFrame ==
    /\ slide.pending > 0
    /\ \E a \in {slideToFrame([slide EXCEPT !.pending = @ - 1])} :
           slide' = [a EXCEPT !.last =
                        [ran |-> TRUE, elapsed |-> slide.now >= slide.to.time,
                         scheduled |-> a.pending - (slide.pending - 1),
                         called |-> a.callbacks - slide.callbacks]]
    /\ UNCHANGED <<sphereVars, face, page, degree, motion, cell, controls>>

NextSlide ==
    \/ SlideTick
    \/ SlideFrame

SpecSlide == InitSlide /\ [][NextSlide]_vars

(***************************************************************************)
(* C24: once the duration has elapsed, the next slideTo frame sets left,   *)
(* top, width and height of the element to exactly the target values,      *)
(* invokes the completion callback exactly once and schedules no further   *)
(* frame; before that time every frame schedules exactly one next frame    *)
(* and does not invoke the callback.                                       *)
(***************************************************************************)
C24_SlideCompletes ==
    slide.run /\ slide.last.ran =>
        /\ slide.callbacks <= 1
        /\ slide.last.elapsed =>
               /\ slide.style = [left |-> Px(slide.to.left), top |-> Px(slide.to.top),
                                 width |-> Px(slide.to.width),
                                 height |-> Px(slide.to.height)]
               /\ slide.last.called = 1 /\ slide.callbacks = 1
               /\ slide.last.scheduled = 0 /\ slide.pending = 0
        /\ ~slide.last.elapsed =>
               /\ slide.last.scheduled = 1 /\ slide.pending = 1
               /\ slide.last.called = 0 /\ slide.callbacks = 0

(***************************************************************************)
(* The controls of the page (src/unnamed/part_000): the globals of lines   *)
(* 130-140, the mouse and wheel handlers, the resume timers and what a     *)
(* frame does with the angles.  Angles are numbers of degrees.  A timer is *)
(* the time left until it is due, in ticks of one second, or Dead once it  *)
(* was cleared or has fired; its id is its position in timers.  The        *)
(* browser fires a due timer at any later moment.  held, sinceInput,       *)
(* inputs, lastInput and last record the history: whether a button is      *)
(* held, the time since the last mousedown, mouseup or wheel event (up to  *)
(* Delay), the number and the kind of these events, and the last step.     *)
(***************************************************************************)
MaxInputs == 3      \* mousedown, mouseup and wheel events of a session
MaxDraws == 2       \* frames the browser draws

Delay == 2          \* the 2000 ms of startRotate, in ticks
Dead == -1

WheelDeltas == {-3000, 750}

\* 4.5 and 0.2, the limits of the zoom factor
ZoomMax == (45 * One) \div 10
ZoomMin == One \div 5
MousePositions == {<<0, 0>>, <<40, 120>>}

\* the timers that wait
PendingTimers(c) == {id \in 1..Len(c.timers) : c.timers[id] /= Dead}

\* clearTimeout(id) for each id of a sequence of ids
RECURSIVE ClearAll(_, _)
ClearAll(timers, ids) ==
    IF ids = <<>> THEN timers
    ELSE ClearAll([timers EXCEPT ![ids[Len(ids)]] = Dead], SubSeq(ids, 1, Len(ids) - 1))

stopRotate(c) ==
    [c EXCEPT !.timers = ClearAll(@, c.rotateTimeouts),
              !.rotateTimeouts = <<>>,
              !.autoRotate = FALSE]

startRotate(c) ==
    [c EXCEPT !.timers = Append(@, Delay),
              !.rotateTimeouts = Append(@, Len(c.timers) + 1)]

mouseDown(c, clientX, clientY) ==
    [stopRotate([c EXCEPT !.firstPosX = clientX, !.firstPosY = clientY])
        EXCEPT !.mouseDragging = TRUE]

\* mouseUp without the call of startRotate
mouseUp_nostart(c) ==
    [c EXCEPT !.lastXAngle = c.xAngle, !.lastYAngle = c.yAngle, !.mouseDragging = FALSE]

mouseUp(c) ==
    [startRotate([c EXCEPT !.lastXAngle = c.xAngle, !.lastYAngle = c.yAngle])
        EXCEPT !.mouseDragging = FALSE]

mouseMove(c, clientX, clientY) ==
    IF c.mouseDragging
    THEN LET dX == Div(Num(clientX - c.firstPosX), Mul(c.zoomFactor, c.zoomFactor))
             dY == Div(Num(clientY - c.firstPosY), Mul(c.zoomFactor, c.zoomFactor))
         IN  [c EXCEPT !.xAngle = dX + c.lastXAngle, !.yAngle = dY + c.lastYAngle]
    ELSE c

\* wheel without the lower limit of the zoom factor
wheel_nofloor(c, deltaY) ==
    LET z1 == c.zoomFactor - Div(Num(deltaY), Num(750))
        z2 == IF z1 > ZoomMax THEN ZoomMax ELSE z1
    IN  startRotate(stopRotate([c EXCEPT !.zoomFactor = z2]))

wheel(c, deltaY) ==
    LET z1 == c.zoomFactor - Div(Num(deltaY), Num(750))
        z2 == IF z1 > ZoomMax THEN ZoomMax ELSE z1
        z3 == IF z2 <= ZoomMin THEN ZoomMin ELSE z2
    IN  startRotate(stopRotate([c EXCEPT !.zoomFactor = z3]))

\* drawScene(now), as far as the globals go: the test of tLoaded, the
\* auto-rotation, the limits of yAngle, the request of the next frame
drawSceneAngles(c) ==
    IF ~c.tLoaded THEN c
    ELSE LET c1 == IF c.autoRotate
                   THEN [c EXCEPT
                            !.xAngle = @ + Div(c.autoRotateAngle, c.zoomFactor),
                            !.lastXAngle = @ + Div(c.autoRotateAngle, c.zoomFactor)]
                   ELSE c
             y1 == IF c1.yAngle > Num(90) THEN Num(90) ELSE c1.yAngle
             y2 == IF y1 < Num(-90) THEN Num(-90) ELSE y1
         IN  [c1 EXCEPT !.yAngle = y2, !.draws = @ + 1]

\* the script to its end: main() and the globals of lines 130-140
Globals(hasGl) ==
    [run |-> TRUE, gl |-> hasGl, tLoaded |-> FALSE, listening |-> hasGl, draws |-> 0,
     mouseDragging |-> FALSE, firstPosX |-> 0, firstPosY |-> 0,
     xAngle |-> 0, yAngle |-> 0, lastXAngle |-> 0, lastYAngle |-> 0,
     zoomFactor |-> One, autoRotateAngle |-> One \div 100, autoRotate |-> TRUE,
     rotateTimeouts |-> <<>>, timers |-> <<>>,
     held |-> FALSE, sinceInput |-> Delay, inputs |-> 0, lastInput |-> "none",
     last |-> [op |-> "main"]]

\* a mousedown, mouseup or wheel event has just been handled
Input(c, kind) ==
    [c EXCEPT !.sinceInput = 0, !.inputs = @ + 1, !.lastInput = kind,
              !.last = [op |-> kind]]

InitControls ==
    /\ \E hasGl \in BOOLEAN : controls = Globals(hasGl)
    /\ sphere = NotRun /\ gl = NotRun /\ built = NotRun /\ threw = FALSE
    /\ call = NotRun
    /\ face = NotRun /\ page = NotRun /\ degree = NotRun /\ motion = NotRun
    /\ cell = NotRun /\ slide = NotRun

ControlsUnchanged == UNCHANGED <<sphereVars, face, page, degree, motion, cell, slide>>

MouseDownEvent ==
    /\ controls.inputs < MaxInputs
    /\ \E at \in MousePositions :
           controls' = [Input(mouseDown(controls, at[1], at[2]), "mousedown")
                           EXCEPT !.held = TRUE]
    /\ ControlsUnchanged

MouseUpEvent ==
    /\ controls.inputs < MaxInputs
    /\ controls' = [Input(mouseUp(controls), "mouseup") EXCEPT !.held = FALSE]
    /\ ControlsUnchanged

MouseMoveEvent ==
    /\ \E at \in MousePositions :
           controls' = [mouseMove(controls, at[1], at[2]) EXCEPT !.last = [op |-> "mousemove"]]
    /\ ControlsUnchanged

WheelEvent ==
    /\ controls.inputs < MaxInputs
    /\ \E deltaY \in WheelDeltas :
           controls' = Input(wheel(controls, deltaY), "wheel")
    /\ ControlsUnchanged

\* one second passes
ControlsTick ==
    /\ controls' = [controls EXCEPT
                       !.timers = [id \in 1..Len(@) |-> IF @[id] > 0 THEN @[id] - 1 ELSE @[id]],
                       !.sinceInput = IF @ < Delay THEN @ + 1 ELSE @,
                       !.last = [op |-> "tick"]]
    /\ ControlsUnchanged

\* a timer of startRotate that is due fires
TimerFires ==
    /\ \E id \in PendingTimers(controls) :
           /\ controls.timers[id] = 0
           /\ controls' = [controls EXCEPT
                              !.timers[id] = Dead,
                              !.autoRotate = TRUE,
                              !.last = [op |-> "timer", since |-> controls.sinceInput,
                                        held |-> controls.held]]
    /\ ControlsUnchanged

\* the load event of the image fires
ControlsImageLoad ==
    /\ controls.listening
    /\ controls' = [controls EXCEPT !.tLoaded = TRUE, !.listening = FALSE,
                                    !.last = [op |-> "load"]]
    /\ ControlsUnchanged

\* the browser runs the frame callback
ControlsFrame ==
    /\ controls.gl
    /\ controls.draws < MaxDraws
    /\ controls' = [drawSceneAngles(controls) EXCEPT
                       !.last = [op |-> "frame", drew |-> controls.tLoaded,
                                 rotated |-> controls.tLoaded /\ controls.autoRotate,
                                 held |-> controls.held]]
    /\ ControlsUnchanged

NextControls ==
    \/ MouseDownEvent
    \/ MouseUpEvent
    \/ MouseMoveEvent
    \/ WheelEvent
    \/ ControlsTick
    \/ TimerFires
    \/ ControlsImageLoad
    \/ ControlsFrame

SpecControls == InitControls /\ [][NextControls]_vars

(***************************************************************************)
(* C25: starting from zoomFactor = 1, after any sequence of wheel events   *)
(* with any deltaY, among any mouse events and frames,                     *)
(* 0.2 <= zoomFactor <= 4.5.                                               *)
(***************************************************************************)
C25_ZoomWithinLimits ==
    controls.run =>
        /\ controls.zoomFactor >= ZoomMin
        /\ controls.zoomFactor <= ZoomMax

\* the third input event is a wheel event that stops the factor at 0.2
C25_Witness ==
    /\ controls.run
    /\ controls.last.op = "wheel"
    /\ controls.inputs = 3
    /\ controls.zoomFactor = One \div 5

(***************************************************************************)
(* C26: while a mouse button is held, from a mousedown event until the     *)
(* next mouseup event, auto-rotation is never enabled: autoRotate stays    *)
(* false and no frame applies the auto-rotation increment, whatever wheel  *)
(* events, mouse moves, frames and timer expiries occur in between.        *)
(***************************************************************************)
C26_NoAutoRotateWhileHeld ==
    controls.run /\ controls.held =>
        /\ ~controls.autoRotate
        /\ controls.last.op = "frame" => ~controls.last.rotated

(***************************************************************************)
(* C27: auto-rotation is re-enabled no earlier than 2 seconds after the    *)
(* most recent mousedown, mouseup or wheel event: every resume timer       *)
(* started by an earlier event is cancelled before it can fire, so at most *)
(* one resume timer is pending at any time.                                *)
(***************************************************************************)
C27_ResumeAfterDelay ==
    controls.run =>
        /\ Cardinality(PendingTimers(controls)) <= 1
        /\ controls.last.op = "timer" => controls.last.since >= Delay

(***************************************************************************)
(* The controls with the browser's guarantees: time passes, and a timer    *)
(* that is due fires unless it is cleared first.                           *)
(***************************************************************************)
SpecControlsFair ==
    SpecControls /\ WF_vars(ControlsTick) /\ WF_vars(TimerFires)

(***************************************************************************)
(* C28: if the most recent input event is a mouseup or a wheel event and   *)
(* no further input event arrives, auto-rotation eventually becomes        *)
(* enabled again (autoRotate = true) once the pending resume timer fires;  *)
(* after a mousedown with no later mouseup or wheel event it never becomes *)
(* enabled.                                                                *)
(***************************************************************************)
C28_ResumesUnlessHeld ==
    /\ \A n \in 1..(MaxInputs + 1) :
           (controls.inputs = n /\ controls.lastInput \in {"mouseup", "wheel"})
               ~> (controls.autoRotate \/ controls.inputs /= n)
    /\ [](controls.lastInput = "mousedown" => ~controls.autoRotate)

\* the timer of a mouseup event has fired and nothing came after the mouseup
C28_Witness ==
    /\ controls.run
    /\ controls.lastInput = "mouseup"
    /\ controls.last.op = "timer"
    /\ controls.autoRotate
    /\ PendingTimers(controls) = {}

(***************************************************************************)
(* C29: the pitch stays within [-90, 90] degrees across drags: after any   *)
(* interleaving of mousedown, mousemove, mouseup events and frames, the    *)
(* base pitch stored when a drag ends (lastYAngle) lies within [-90, 90],  *)
(* as does the yAngle applied in every drawn frame.                        *)
(***************************************************************************)
C29_PitchWithinLimits ==
    controls.run =>
        /\ controls.lastYAngle >= Num(-90) /\ controls.lastYAngle <= Num(90)
        /\ controls.last.op = "frame" /\ controls.last.drew =>
               controls.yAngle >= Num(-90) /\ controls.yAngle <= Num(90)

============================================================================
